---------------------------- MODULE Spec2Model ----------------------------
(***************************************************************************)
(* adaptiva.c: an adaptive integer array that packs as many integers into  *)
(* each 32-bit word as the widest value seen so far ("entropy") allows.    *)
(*                                                                         *)
(* A machine word (unsigned int, or the bit pattern of an int) is modelled *)
(* as the set of the positions of its 1 bits, so that every C operator of  *)
(* the source (&, |, ^, ~, <<, >>, +, -) is modelled at its full 32-bit    *)
(* width.  A C int seen as a number is a TLA+ integer in -2^31 .. 2^31-1.  *)
(* Signed overflow and shifts of negative ints are undefined in ISO C; the *)
(* model gives them the two's-complement wrap-around result, which is what *)
(* the instructions emitted for this source compute.                       *)
(***************************************************************************)
EXTENDS Integers, Sequences, FiniteSets, TLC

\* sizeof(int): the size of one storage word in bytes
SIZEOF_INT == 4

\* #define BITS_IN_INT ((int)(sizeof(int) * 8))
BITS_IN_INT == SIZEOF_INT * 8

\* #define VALS_IN_INT(ent) (BITS_IN_INT / ent)
VALS_IN_INT(ent) == BITS_IN_INT \div ent

\* the bit positions of a word, least significant first
Bit == 0 .. (BITS_IN_INT - 1)

\* the position of the sign bit of an int
SignBit == BITS_IN_INT - 1

---------------------------------------------------------------------------
(* 32-bit words and the C operators on them *)

\* the bit pattern of the int v (two's complement)
ToWord(v) == {i \in Bit : IF i = SignBit THEN v < 0 ELSE (v \div (2 ^ i)) % 2 = 1}

\* the value of the bits lo..hi of w as a natural number: the sum of their
\* powers of two, summed by halves
RECURSIVE Weight(_, _, _)
Weight(w, lo, hi) ==
    IF lo = hi THEN (IF lo \in w THEN 2 ^ lo ELSE 0)
    ELSE LET mid == (lo + hi) \div 2
         IN  Weight(w, lo, mid) + Weight(w, mid + 1, hi)

\* the int whose bit pattern is w (two's complement)
ToInt(w) == IF SignBit \in w
            THEN (Weight(w, 0, SignBit - 1) - 2 ^ (SignBit - 1)) - 2 ^ (SignBit - 1)
            ELSE Weight(w, 0, SignBit - 1)

AND(a, b) == a \cap b
OR(a, b)  == a \cup b
XOR(a, b) == (a \ b) \cup (b \ a)
NOT(a)    == Bit \ a

\* a << k
SHL(a, k) == {i + k : i \in a} \cap Bit

\* a >> k on an unsigned int: zeros are shifted in
SHR(a, k) == {i - k : i \in a} \cap Bit

\* a >> k on an int: the sign bit is shifted in
SAR(a, k) == SHR(a, k) \cup (IF SignBit \in a THEN {i \in Bit : i >= BITS_IN_INT - k} ELSE {})

\* x + y for ints x and y, wrapped into -2^31 .. 2^31-1
WrapAdd(x, y) ==
    LET half == 2 ^ (SignBit - 1)
    IN  IF x >= 0 /\ y >= 0 /\ y > ((half - 1) + half) - x
        THEN ((x - half) - half) + ((y - half) - half)
        ELSE IF x < 0 /\ y < 0 /\ y < ((-half) - half) - x
        THEN ((x + half) + half) + ((y + half) + half)
        ELSE x + y

\* a + b and a - b, modulo 2^32 (a - b is a + ~b + 1)
ADD(a, b) == IF b = {} THEN a ELSE ToWord(WrapAdd(ToInt(a), ToInt(b)))
SUB(a, b) == IF b = {} THEN a
             ELSE ToWord(WrapAdd(WrapAdd(ToInt(a), ToInt(NOT(b))), 1))

\* the constant 1
ONE == {0}

\* __builtin_clz(w) for w # 0: the number of leading zero bits
Clz(w) == SignBit - (CHOOSE m \in w : \A x \in w : x <= m)

---------------------------------------------------------------------------
(* The bounds of the model and the inputs the operations are called with *)

\* the number of calls made on one container
MaxOps == 2

\* INT_MIN and INT_MAX
MinInt == (-(2 ^ (SignBit - 1))) - 2 ^ (SignBit - 1)
MaxInt == (2 ^ (SignBit - 1) - 1) + 2 ^ (SignBit - 1)

\* the values insert is called with
Values == {MinInt, -2, -1, 0, 1, 65535, 65536}

\* the values find is called with
FindValues == {-1, 0, 1}

\* the indices insert and get are called with
Indices == {0, 1, 40}

\* an index so large that the int arithmetic of the growth step wraps
HugeIndices == {MaxInt}

\* the largest value main's const int loop is given (65536 in the source)
MaxLoopCount == 34

\* what the word malloc returns to init may hold: init does not clear it
InitWords == {{}, Bit}

---------------------------------------------------------------------------
(* The globals of adaptiva.c, and the record of the calls made so far *)

VARIABLES
    entropy,        \* used bits per value
    buffer,         \* the storage words, buffer[0] .. buffer[n-1]
    size,           \* number of elements
    allocated,      \* bytes of the region buffer points to
    signed_values,  \* 1 once the values are stored as signed lanes
    call,           \* the last call: its name, arguments and result
    written,        \* index -> the value the last insert at it was given
    overwritten,    \* TRUE once some index was inserted at twice
    received,       \* the values insert has been called with
    nops,           \* the number of calls so far
    crashed         \* TRUE once the process has been killed

globals == <<entropy, buffer, size, allocated, signed_values>>
vars == <<entropy, buffer, size, allocated, signed_values,
          call, written, overwritten, received, nops, crashed>>

---------------------------------------------------------------------------
(* Bit codec *)

\* (1 << entropy) - 1, the mask of _get, _put and find, for each entropy; at
\* BITS_IN_INT the shift leaves no bit of the 1 in the word
LaneMask == [ent \in 1 .. BITS_IN_INT |-> SUB(SHL(ONE, ent), ONE)]

\* the body of _get, sgn being the value of the global signed_values (0 or
\* 1) it reads; the result is the bit pattern of the int returned
GetLane(buf, index, ent, sgn) ==
    LET j == index \div VALS_IN_INT(ent)
        off == index % VALS_IN_INT(ent)
        mask == LaneMask[ent]
        v0 == buf[j]
        v1 == SAR(v0, off * ent)
        v2 == AND(v1, mask)
        sign_mask == IF sgn = 1 THEN SHL(ONE, ent - 1) ELSE {}
    IN  SUB(XOR(v2, sign_mask), sign_mask)

\* static inline int _get(unsigned int *buf, size_t index, int entropy)
_get(buf, index, ent) == GetLane(buf, index, ent, signed_values)

\* _put without "v &= ~(mask << (entropy * off));"
_putKeepsLane(buf, index, value, ent) ==
    LET j == index \div VALS_IN_INT(ent)
        off == index % VALS_IN_INT(ent)
    IN  [buf EXCEPT ![j] = OR(buf[j], SHL(value, ent * off))]

\* static inline void _put(unsigned int *buf, size_t index, int value, int entropy)
\* value is the bit pattern of the int passed; the result is buf after the call
_put(buf, index, value, ent) ==
    LET j == index \div VALS_IN_INT(ent)
        off == index % VALS_IN_INT(ent)
        mask == LaneMask[ent]
        v0 == buf[j]
        v1 == AND(v0, NOT(SHL(mask, ent * off)))
        v2 == OR(v1, SHL(value, ent * off))
    IN  [buf EXCEPT ![j] = v2]

\* int get(size_t index)
get(index) == ToInt(_get(buffer, index, entropy))

---------------------------------------------------------------------------
(* insert: width selection, repack, growth, write                          *)
(*                                                                         *)
(* A loop of the source over i = lo .. hi is written as the loop over the  *)
(* lower half of the range followed by the loop over the upper half; the   *)
(* binding  x \in {lower half}  makes the lower half's result a value      *)
(* before the upper half starts from it.                                   *)

\* insert, "check how many bits we need": the bit length of |value|
BitLength(value) ==
    LET abs_mask == SAR(ToWord(value), BITS_IN_INT - 1)
    IN  BITS_IN_INT - Clz(OR(XOR(ADD(ToWord(value), abs_mask), abs_mask), ONE))

\* value_entropy with the sign bit added for every value, not only for the
\* negative ones
ValueEntropyAlwaysSigned(value) ==
    LET e1 == BitLength(value) + 1
    IN  IF e1 > BITS_IN_INT \div 2 THEN BITS_IN_INT - 1 ELSE e1

\* value_entropy with "value_entropy = BITS_IN_INT;" in the clamp
ValueEntropyClampsToWord(value) ==
    LET e0 == BitLength(value)
        e1 == IF value < 0 THEN e0 + 1 ELSE e0
    IN  IF e1 > BITS_IN_INT \div 2 THEN BITS_IN_INT ELSE e1

\* insert: value_entropy once the sign bit is added and widths above
\* BITS_IN_INT / 2 are forced to BITS_IN_INT - 1
ValueEntropy(value) ==
    LET e0 == BitLength(value)
        e1 == IF value < 0 THEN e0 + 1 ELSE e0
    IN  IF e1 > BITS_IN_INT \div 2 THEN BITS_IN_INT - 1 ELSE e1

\* sign_switch without "if (!signed_values) sign_switch = 1;" in the clamp
SignSwitchOnlyNegative(value) ==
    IF value < 0 /\ signed_values = 0 THEN 1 ELSE 0

\* insert: sign_switch, 1 when the call turns the container signed
SignSwitch(value) ==
    LET e0 == BitLength(value)
        e1 == IF value < 0 THEN e0 + 1 ELSE e0
        s1 == IF value < 0 /\ signed_values = 0 THEN 1 ELSE 0
    IN  IF e1 > BITS_IN_INT \div 2 /\ signed_values = 0 THEN 1 ELSE s1

\* insert: the condition of "re-adjust previous bits if necessary"
NeedsRepack(value) == entropy < ValueEntropy(value) \/ SignSwitch(value) = 1

\* the repack without its loop: no element is copied to the new region
RepackLoopCopiesNothing(buf, lo, hi, ent) == buf

\* insert: the loop that reads every element at the old width and writes it
\* at the new one (ent), for the elements lo .. hi in ascending order: the
\* lower half of the range is done first, and the upper half on its result
RECURSIVE RepackLoop(_, _, _, _)
RepackLoop(buf, lo, hi, ent) ==
    IF lo > hi THEN buf
    ELSE IF lo = hi
    THEN _put(buf, lo, _get(buffer, lo, entropy), ent)
    ELSE LET mid == (lo + hi) \div 2
         IN  CHOOSE done \in {RepackLoop(half, mid + 1, hi, ent) :
                                 half \in {RepackLoop(buf, lo, mid, ent)}} : TRUE

\* Repack with "signed_values = sign_switch;" for
\* "if (sign_switch) signed_values = 1;"
RepackAssignsSignSwitch(value) ==
    IF NeedsRepack(value)
    THEN LET value_entropy == ValueEntropy(value)
             new_buffer_size == size \div VALS_IN_INT(value_entropy) + 1
             zeroed == [j \in 0 .. (new_buffer_size - 1) |-> {}]
         IN  [buffer |-> RepackLoop(zeroed, 0, size - 1, value_entropy),
              allocated |-> SIZEOF_INT * new_buffer_size,
              entropy |-> value_entropy,
              size |-> size,
              signed_values |-> SignSwitch(value)]
    ELSE [buffer |-> buffer, allocated |-> allocated, entropy |-> entropy,
          size |-> size, signed_values |-> signed_values]

\* insert: the globals after the repack step
Repack(value) ==
    IF NeedsRepack(value)
    THEN LET value_entropy == ValueEntropy(value)
             new_buffer_size == size \div VALS_IN_INT(value_entropy) + 1
             zeroed == [j \in 0 .. (new_buffer_size - 1) |-> {}]
         IN  [buffer |-> RepackLoop(zeroed, 0, size - 1, value_entropy),
              allocated |-> SIZEOF_INT * new_buffer_size,
              entropy |-> value_entropy,
              size |-> size,
              signed_values |-> IF SignSwitch(value) = 1 THEN 1 ELSE signed_values]
    ELSE [buffer |-> buffer, allocated |-> allocated, entropy |-> entropy,
          size |-> size, signed_values |-> signed_values]

\* insert, growth step: int new_size = index / VALS_IN_INT(entropy) + 1,
\* the sum converted to int
GrowSize(g, index) == WrapAdd(index \div VALS_IN_INT(g.entropy), 1)

\* insert, growth step: int new_allocated = sizeof(int) * new_size, the
\* product (new_size four times) converted to int
GrowAllocated(g, index) ==
    LET once == ToWord(GrowSize(g, index))
        twice == ADD(once, once)
    IN  ToInt(ADD(twice, twice))

\* insert, growth step: malloc(new_allocated) returns a region smaller than
\* the allocated bytes that memcpy then copies into it
GrowOverruns(g, index) ==
    /\ index >= g.size
    /\ GrowAllocated(g, index) >= 0
    /\ GrowAllocated(g, index) < g.allocated

\* insert: the globals g after the growth step for index
Grow(g, index) ==
    IF index >= g.size
    THEN LET new_size == GrowSize(g, index)
             new_allocated == GrowAllocated(g, index)
             copied == g.allocated \div SIZEOF_INT
         IN  [g EXCEPT
                !.buffer = [j \in 0 .. (new_size - 1) |->
                               IF j < copied THEN g.buffer[j] ELSE {}],
                !.allocated = new_allocated,
                !.size = new_size * VALS_IN_INT(g.entropy)]
    ELSE g

\* static void insert(size_t index, int value): the globals after the call
insert(index, value) ==
    LET g == Grow(Repack(value), index)
    IN  [g EXCEPT !.buffer = _put(g.buffer, index, ToWord(value), g.entropy)]

---------------------------------------------------------------------------
(* find, max_value, min_value *)

\* find returns (size_t) -1 for not found
NotFound == -1

\* find: pattern after the first loop, the value replicated into every lane
\* (value is the bit pattern of the int passed)
FindPattern(value) ==
    UNION {SHL(value, entropy * i) : i \in 0 .. (VALS_IN_INT(entropy) - 1)}

\* find: high_bit_mask after the first loop
FindHighBitMask ==
    UNION {SHL(SHR(LaneMask[entropy], 1), entropy * i) :
               i \in 0 .. (VALS_IN_INT(entropy) - 1)}

\* find: big_mask; ~0 is an int, so >> shifts its sign bit in
FindBigMask ==
    SAR(NOT({}), BITS_IN_INT - VALS_IN_INT(entropy) * entropy)

\* find: the inner loop over the lanes lo .. hi of word i, in ascending
\* order, returning at the first lane equal to value; the comparison is made
\* on unsigned ints
RECURSIVE FindLane(_, _, _, _, _)
FindLane(value, packed, i, lo, hi) ==
    LET viint == VALS_IN_INT(entropy)
        mask == LaneMask[entropy]
    IN  IF lo > hi THEN NotFound
        ELSE IF lo = hi
        THEN IF AND(SAR(packed, entropy * lo), mask) = value
             THEN i * viint + lo
             ELSE NotFound
        ELSE LET mid == (lo + hi) \div 2
             IN  CHOOSE r \in {IF first # NotFound THEN first
                               ELSE FindLane(value, packed, i, mid + 1, hi) :
                                   first \in {FindLane(value, packed, i, lo, mid)}} : TRUE

\* find: the body of the loop over the allocated words, for word i
FindInWord(value, pattern, high_bit_mask, big_mask, i) ==
    LET packed == buffer[i]
        match == XOR(packed, pattern)
        matches == AND(NOT(OR(OR(ADD(AND(match, high_bit_mask), high_bit_mask),
                                 match), high_bit_mask)), big_mask)
    IN  IF matches # {}
        THEN FindLane(value, packed, i, 0, VALS_IN_INT(entropy) - 1)
        ELSE NotFound

\* find: the loop over the allocated words lo .. hi, in ascending order,
\* returning at the first word that holds value
RECURSIVE FindWord(_, _, _, _, _, _)
FindWord(value, pattern, high_bit_mask, big_mask, lo, hi) ==
    IF lo > hi THEN NotFound
    ELSE IF lo = hi
    THEN FindInWord(value, pattern, high_bit_mask, big_mask, lo)
    ELSE LET mid == (lo + hi) \div 2
         IN  CHOOSE r \in {IF first # NotFound THEN first
                           ELSE FindWord(value, pattern, high_bit_mask, big_mask,
                                         mid + 1, hi) :
                               first \in {FindWord(value, pattern, high_bit_mask,
                                                   big_mask, lo, mid)}} : TRUE

\* size_t find(int value)
find(value) ==
    LET n == allocated \div SIZEOF_INT
    IN  FindWord(ToWord(value), FindPattern(ToWord(value)), FindHighBitMask,
                 FindBigMask, 0, n - 1)

\* the loop of max_value with "if (max > v)" for "if (max < v)"
MaxLoopTakesSmaller(max, lo, hi) ==
    IF lo > hi THEN max
    ELSE LET least == CHOOSE m \in {ToInt(_get(buffer, i, entropy)) : i \in lo .. hi} :
                          \A i \in lo .. hi : ToInt(_get(buffer, i, entropy)) >= m
         IN  IF max > least THEN least ELSE max

\* max_value: the loop over the elements lo .. hi in ascending order, max
\* being the accumulator
RECURSIVE MaxLoop(_, _, _)
MaxLoop(max, lo, hi) ==
    IF lo > hi THEN max
    ELSE IF lo = hi
    THEN LET v == ToInt(_get(buffer, lo, entropy))
         IN  IF max < v THEN v ELSE max
    ELSE LET mid == (lo + hi) \div 2
         IN  CHOOSE r \in {MaxLoop(half, mid + 1, hi) :
                              half \in {MaxLoop(max, lo, mid)}} : TRUE

\* max_value: int max = (unsigned) (1 << (BITS_IN_INT - 1));
MaxSeed == ToInt(SHL(ONE, BITS_IN_INT - 1))

\* int max_value()
max_value == MaxLoop(MaxSeed, 0, size - 1)

\* min_value: the loop over the elements lo .. hi in ascending order, min
\* being the accumulator
RECURSIVE MinLoop(_, _, _)
MinLoop(min, lo, hi) ==
    IF lo > hi THEN min
    ELSE IF lo = hi
    THEN LET v == ToInt(_get(buffer, lo, entropy))
         IN  IF min > v THEN v ELSE min
    ELSE LET mid == (lo + hi) \div 2
         IN  CHOOSE r \in {MinLoop(half, mid + 1, hi) :
                              half \in {MinLoop(min, lo, mid)}} : TRUE

\* min_value: int min = (unsigned) (1 << (BITS_IN_INT - 1)) - 1;
MinSeed == ToInt(SUB(SHL(ONE, BITS_IN_INT - 1), ONE))

\* int min_value()
min_value == MinLoop(MinSeed, 0, size - 1)

---------------------------------------------------------------------------
(* The calls a client makes on one container *)

NoCall == [op |-> "init", index |-> 0, value |-> 0, ret |-> 0]

\* static void init(): the word malloc returns is not cleared
Init ==
    /\ entropy = 1
    /\ size = BITS_IN_INT
    /\ signed_values = 0
    /\ \E w \in InitWords : buffer = [j \in {0} |-> w]
    /\ allocated = SIZEOF_INT
    /\ call = NoCall
    /\ written = [i \in {} |-> 0]
    /\ overwritten = FALSE
    /\ received = {}
    /\ nops = 0
    /\ crashed = FALSE

\* a call insert(index, value) that returns, every malloc succeeding
InsertCall(index, value) ==
    /\ ~crashed
    /\ \E g \in {insert(index, value)} :
           /\ entropy' = g.entropy
           /\ buffer' = g.buffer
           /\ size' = g.size
           /\ allocated' = g.allocated
           /\ signed_values' = g.signed_values
    /\ call' = [op |-> "insert", index |-> index, value |-> value, ret |-> 0]
    /\ written' = [i \in DOMAIN written \cup {index} |->
                      IF i = index THEN value ELSE written[i]]
    /\ overwritten' = (overwritten \/ index \in DOMAIN written)
    /\ received' = received \cup {value}
    /\ nops' = nops + 1
    /\ UNCHANGED crashed

\* insert(index, value) as one of the calls of a client
Insert(index, value) ==
    /\ nops < MaxOps
    /\ InsertCall(index, value)

\* insert(index, value) with an index whose growth step overruns the new
\* region: memcpy (line 102) writes allocated bytes into a region of
\* new_allocated < allocated bytes, and the process is killed (by free, by
\* malloc's own checks or by the write of _put far outside the region)
InsertOverrun(index, value) ==
    /\ ~crashed
    /\ nops < MaxOps
    /\ \E g \in {Repack(value)} :
           /\ GrowOverruns(g, index)
           /\ entropy' = g.entropy
           /\ buffer' = g.buffer
           /\ size' = g.size
           /\ allocated' = g.allocated
           /\ signed_values' = g.signed_values
    /\ call' = [op |-> "insert", index |-> index, value |-> value, ret |-> 0]
    /\ received' = received \cup {value}
    /\ nops' = nops + 1
    /\ crashed' = TRUE
    /\ UNCHANGED <<written, overwritten>>

\* get(index), for an index of the array
Get(index) ==
    /\ ~crashed
    /\ nops < MaxOps
    /\ index < size
    /\ call' = [op |-> "get", index |-> index, value |-> 0, ret |-> get(index)]
    /\ nops' = nops + 1
    /\ UNCHANGED <<globals, written, overwritten, received, crashed>>

\* find(value)
Find(value) ==
    /\ ~crashed
    /\ nops < MaxOps
    /\ call' = [op |-> "find", index |-> 0, value |-> value, ret |-> find(value)]
    /\ nops' = nops + 1
    /\ UNCHANGED <<globals, written, overwritten, received, crashed>>

\* max_value()
MaxValue ==
    /\ ~crashed
    /\ nops < MaxOps
    /\ call' = [op |-> "max_value", index |-> 0, value |-> 0, ret |-> max_value]
    /\ nops' = nops + 1
    /\ UNCHANGED <<globals, written, overwritten, received, crashed>>

\* min_value()
MinValue ==
    /\ ~crashed
    /\ nops < MaxOps
    /\ call' = [op |-> "min_value", index |-> 0, value |-> 0, ret |-> min_value]
    /\ nops' = nops + 1
    /\ UNCHANGED <<globals, written, overwritten, received, crashed>>

Next ==
    \/ \E index \in Indices, value \in Values : Insert(index, value)
    \/ \E index \in HugeIndices, value \in Values : InsertOverrun(index, value)
    \/ \E index \in Indices : Get(index)
    \/ \E value \in FindValues : Find(value)
    \/ MaxValue
    \/ MinValue

Spec == Init /\ [][Next]_vars

---------------------------------------------------------------------------
(* main's sanity run: for (i < loop) insert(i, i), then for (i < loop)     *)
(* insert(i, -i).  The value of loop is any number up to MaxLoopCount: the *)
(* second loop may start after any iteration of the first.                 *)

\* the number of indices inserted at
Filled == Cardinality(DOMAIN written)

\* main: iteration i = nops of the first loop, insert(i, i)
MainFill ==
    /\ ~overwritten
    /\ nops < MaxLoopCount
    /\ DOMAIN written = 0 .. (nops - 1)
    /\ \A i \in DOMAIN written : written[i] = i
    /\ InsertCall(nops, nops)

\* main: iteration i = nops - loop of the second loop, insert(i, -i)
MainNegate ==
    /\ Filled >= 1
    /\ DOMAIN written = 0 .. (Filled - 1)
    /\ nops >= Filled
    /\ nops - Filled < Filled
    /\ overwritten = (nops > Filled)
    /\ \A i \in DOMAIN written :
           written[i] = IF i < nops - Filled THEN -i ELSE i
    /\ InsertCall(nops - Filled, -(nops - Filled))

NextMain ==
    \/ Next
    \/ MainFill
    \/ MainNegate

SpecMain == Init /\ [][NextMain]_vars

---------------------------------------------------------------------------
(* insert when malloc returns NULL.  insert tests no malloc result: the    *)
(* memset that follows writes through the null pointer and the process is  *)
(* killed.  The globals are those of the C abstract machine at that point. *)

\* malloc fails in the repack step: allocated is already overwritten (line 82)
InsertRepackNoMem(index, value) ==
    /\ ~crashed
    /\ nops < MaxOps
    /\ NeedsRepack(value)
    /\ allocated' = SIZEOF_INT * (size \div VALS_IN_INT(ValueEntropy(value)) + 1)
    /\ call' = [op |-> "insert", index |-> index, value |-> value, ret |-> 0]
    /\ nops' = nops + 1
    /\ received' = received \cup {value}
    /\ crashed' = TRUE
    /\ UNCHANGED <<entropy, buffer, size, signed_values, written, overwritten>>

\* malloc fails in the growth step: a repack of the same call is already done
InsertGrowNoMem(index, value) ==
    /\ ~crashed
    /\ nops < MaxOps
    /\ \E g \in {Repack(value)} :
           /\ index >= g.size
           /\ entropy' = g.entropy
           /\ buffer' = g.buffer
           /\ size' = g.size
           /\ allocated' = g.allocated
           /\ signed_values' = g.signed_values
    /\ call' = [op |-> "insert", index |-> index, value |-> value, ret |-> 0]
    /\ received' = received \cup {value}
    /\ nops' = nops + 1
    /\ crashed' = TRUE
    /\ UNCHANGED <<written, overwritten>>

NextNoMem ==
    \/ Next
    \/ \E index \in Indices, value \in Values : InsertRepackNoMem(index, value)
    \/ \E index \in Indices, value \in Values : InsertGrowNoMem(index, value)

SpecNoMem == Init /\ [][NextNoMem]_vars

---------------------------------------------------------------------------
(* The claims *)

\* the indices of the array
Slots == 0 .. (size - 1)

\* get(j) once the step is done
GetAfter(j) == ToInt(GetLane(buffer', j, entropy', signed_values'))

\* C1 (round trip): after insert(i, v_i) at pairwise distinct indices
\* i = 0 .. N-1, in any order and with any ints v_i, get(i) = v_i for all i.
C1_RoundTrip ==
    (/\ ~overwritten
     /\ DOMAIN written = 0 .. (Cardinality(DOMAIN written) - 1))
        => \A i \in DOMAIN written : get(i) = written[i]

\* C2 (repack fidelity): an insert(index, value) that repacks leaves get(j)
\* as it was for every j < size other than index.
C2_RepackFidelity ==
    [][(call'.op = "insert" /\ NeedsRepack(call'.value))
          => \A j \in Slots : j # call'.index => GetAfter(j) = get(j)]_vars

\* C3 (monotonic entropy): no call makes entropy smaller.
C3_MonotonicEntropy == [][entropy' >= entropy]_vars

\* C4 (lane isolation): an insert(index, value) that neither repacks nor
\* grows leaves get(j) as it was for every j < size other than index.
C4_LaneIsolation ==
    [][(/\ call'.op = "insert"
        /\ ~NeedsRepack(call'.value)
        /\ call'.index < size)
          => \A j \in Slots : j # call'.index => GetAfter(j) = get(j)]_vars

\* the lowest index of the array whose element is value, NotFound if none
LowestIndexOf(value) ==
    IF \E i \in Slots : get(i) = value
    THEN CHOOSE i \in Slots :
             /\ get(i) = value
             /\ \A k \in 0 .. (i - 1) : get(k) # value
    ELSE NotFound

\* C5 (find): find(value) returns the lowest index i < size with
\* get(i) = value, and the not-found sentinel exactly when there is none.
C5_FindLowest ==
    call.op = "find" => call.ret = LowestIndexOf(call.value)

\* C6 (find stays inside the array): find(value) returns the not-found
\* sentinel or an index below size, whatever words lie beyond the last slot.
C6_FindInsideArray ==
    call.op = "find" => (call.ret = NotFound \/ call.ret < size)

\* the values a lane of the current encoding can hold: 0 .. 2^entropy - 1
\* when unsigned, -2^(entropy-1) .. 2^(entropy-1) - 1 when signed
InValueDomain(v) ==
    IF signed_values = 0
    THEN v >= 0 /\ (entropy >= SignBit \/ v < 2 ^ entropy)
    ELSE v >= -(2 ^ (entropy - 1)) /\ v <= 2 ^ (entropy - 1) - 1

\* C7 (width sufficiency): after insert(index, value), value lies in the
\* value domain of the resulting encoding.
C7_WidthSufficient ==
    call.op = "insert" => InValueDomain(call.value)

\* a step in which a malloc of insert returns NULL
MallocFails ==
    \E index \in Indices, value \in Values :
        InsertRepackNoMem(index, value) \/ InsertGrowNoMem(index, value)

\* C8 (allocation failure is a no-op): an insert whose malloc fails leaves
\* entropy, signed_values, size, allocated and the storage as they were and
\* returns to its caller with the failure, rather than ending the process.
C8_NoMemIsNoOp ==
    [][MallocFails => (UNCHANGED globals /\ ~crashed')]_vars

\* C9 (signed mode is sticky): signed_values is 1 after an insert of a
\* negative value, and no insert, get, find, max_value or min_value call
\* takes it from 1 back to 0.
C9_SignedSticky ==
    [][/\ (call'.op = "insert" /\ call'.value < 0) => signed_values' = 1
       /\ signed_values = 1 => signed_values' = 1]_vars

\* a non-negative one-bit value inserted into a container that an earlier
\* call had turned signed
C9_Witness ==
    /\ call.op = "insert"
    /\ call.value \in {0, 1}
    /\ signed_values = 1

\* the bits of a word above its last lane
PaddingBits == {b \in Bit : b >= entropy * VALS_IN_INT(entropy)}

\* C10 (padding stays zero): in every allocated word the bits above the
\* last lane are zero.
C10_PaddingZero ==
    \A j \in DOMAIN buffer : AND(buffer[j], PaddingBits) = {}

\* C11 (find after insert): when value is what the last insert at some
\* index was given, find(value) returns an index j, not the not-found
\* sentinel, with get(j) = value.
C11_FindAfterInsert ==
    (/\ call.op = "find"
     /\ \E k \in DOMAIN written : written[k] = call.value)
        => (/\ call.ret # NotFound
            /\ ToInt(_get(buffer, call.ret, entropy)) = call.value)

\* C12 (gaps are zero): an insert(index, value) with index >= size that
\* returns leaves size > index, and get(j) = 0 for every j other than index
\* from the old size up to the new one.
C12_GapsZero ==
    [][(/\ call'.op = "insert"
        /\ ~crashed'
        /\ call'.index >= size)
          => (/\ size' > call'.index
              /\ \A j \in size .. (size' - 1) :
                     j # call'.index => GetAfter(j) = 0)]_vars

\* the values 0 .. 2^(BITS_IN_INT / 2) - 1
SmallValues == 0 .. (2 ^ (BITS_IN_INT \div 2) - 1)

\* C13 (unsigned small-value round trip): in a container that insert has
\* only been called on with values of 0 .. 65535, get(i) is the value the
\* last insert at i was given, for every index i inserted at (the indices
\* 0 .. N-1 inserted at once each being one such history).
C13_SmallRoundTrip ==
    (~crashed /\ received \subseteq SmallValues)
        => \A i \in DOMAIN written : get(i) = written[i]

\* the first loop of main has run past the first word: the array has been
\* repacked and has grown
C13_Witness ==
    /\ ~crashed
    /\ received \subseteq SmallValues
    /\ DOMAIN written = 0 .. (Filled - 1)
    /\ Filled > BITS_IN_INT
    /\ size > BITS_IN_INT
    /\ entropy > 1

\* main's two loops are both done: insert(i, i) and then insert(i, -i) were
\* called for i = 0 .. Filled - 1 in ascending order
MainDone ==
    /\ ~crashed
    /\ Filled >= 1
    /\ DOMAIN written = 0 .. (Filled - 1)
    /\ nops = 2 * Filled
    /\ overwritten
    /\ \A i \in DOMAIN written : written[i] = -i

\* signed_values is 1 and get(i) = -i for i = 0 .. Filled - 1
AllNegated ==
    /\ signed_values = 1
    /\ \A i \in DOMAIN written : get(i) = -i

\* C14 (overwrite with negatives in ascending order), as stated: for every
\* N >= 1, after insert(i, i) for i = 0 .. N-1 and then insert(i, -i) for
\* i = 0 .. N-1 in ascending order, signed_values is 1 and get(i) = -i for
\* every i in 0 .. N-1.
C14_NegateAll == MainDone => AllNegated

\* C14, for N >= 2: with N = 1 the only value inserted is 0 (-0 is 0) and
\* signed_values stays 0.
C14_NegateAllFromTwo == (MainDone /\ Filled >= 2) => AllNegated

\* both loops done on an array that has been repacked and has grown
C14_Witness ==
    /\ MainDone
    /\ Filled > BITS_IN_INT
    /\ size > BITS_IN_INT

\* C15 (fresh container): right after init, entropy is 1, signed_values is
\* 0, size is BITS_IN_INT, the one storage word is zero and get(i) = 0 for
\* every i < size.
C15_FreshContainer ==
    call.op = "init"
        => (/\ entropy = 1
            /\ signed_values = 0
            /\ size = BITS_IN_INT
            /\ \A j \in DOMAIN buffer : buffer[j] = {}
            /\ \A i \in Slots : get(i) = 0)

\* the number of bits of the non-negative value v, 0 counted as one bit
BitsOf(v) == CHOOSE n \in 1 .. SignBit :
                 /\ n = SignBit \/ v < 2 ^ n
                 /\ n = 1 \/ v >= 2 ^ (n - 1)

\* C16 (no needless repack): in a container that insert has only been called
\* on with non-negative values of at most BITS_IN_INT / 2 bits, signed_values
\* is 0 and entropy is the largest number of bits among those values.
C16_NoNeedlessRepack ==
    (received # {} /\ received \subseteq SmallValues)
        => (/\ signed_values = 0
            /\ \E v \in received : entropy = BitsOf(v)
            /\ \A v \in received : entropy >= BitsOf(v))

\* several small values inserted, the widest of them wider than one bit and
\* narrower than BITS_IN_INT / 2 bits
C16_Witness ==
    /\ received \subseteq SmallValues
    /\ Cardinality(received) > 2
    /\ entropy > 1
    /\ entropy < BITS_IN_INT \div 2

\* the width of an int: the number of bits of |v|, plus one if v < 0
\* (|INT_MIN| = 2^31 has BITS_IN_INT bits)
WidthOf(v) ==
    IF v >= 0 THEN BitsOf(v)
    ELSE IF v = MinInt THEN BITS_IN_INT + 1
    ELSE BitsOf(-v) + 1

ShiftAmounts ==
    {entropy, entropy - 1, BITS_IN_INT - VALS_IN_INT(entropy) * entropy}
        \cup {entropy * off : off \in 0 .. (VALS_IN_INT(entropy) - 1)}

CapacityCoversSize ==
    (allocated \div SIZEOF_INT) * VALS_IN_INT(entropy) >= size

\* insert(index, value) called in the current state: every word the repack
\* loop reads lies in the region buffer points to, and every word it writes
\* lies in the region just allocated
RepackStaysInside(value) ==
    NeedsRepack(value) =>
        \A i \in 0 .. (size - 1) :
            /\ i \div VALS_IN_INT(entropy) < allocated \div SIZEOF_INT
            /\ i \div VALS_IN_INT(ValueEntropy(value))
                   < size \div VALS_IN_INT(ValueEntropy(value)) + 1

\* insert(index, value) called in the current state: the growth step copies
\* no more bytes than the region just allocated holds
GrowCopyFits(index, value) ==
    \A g \in {Repack(value)} :
        index >= g.size => g.allocated <= GrowAllocated(g, index)

\* insert(index, value) called in the current state: the word the final _put
\* reads and writes lies in the region buffer then points to
PutStaysInside(index, value) ==
    \A g \in {Repack(value)} :
        index \div VALS_IN_INT(g.entropy)
            < (IF index >= g.size THEN GrowAllocated(g, index)
                                  ELSE g.allocated) \div SIZEOF_INT

\* C19 (capacity before access): the storage always holds at least size
\* lanes, and in every insert the repack loop and the final _put stay inside
\* the region allocated at that moment and the growth step copies no more
\* bytes than the new region holds.
C19_CapacityBeforeAccess ==
    /\ []CapacityCoversSize
    /\ [][call'.op = "insert"
             => (/\ RepackStaysInside(call'.value)
                 /\ GrowCopyFits(call'.index, call'.value)
                 /\ PutStaysInside(call'.index, call'.value))]_vars

\* the largest and the smallest of get(i) over the indices of the array
LargestElement == CHOOSE m \in {get(i) : i \in Slots} :
                      \A i \in Slots : get(i) <= m
SmallestElement == CHOOSE m \in {get(i) : i \in Slots} :
                       \A i \in Slots : get(i) >= m

\* C20 (aggregate scans): max_value() returns the maximum and min_value()
\* the minimum of get(i) over all i < size, the scan of max_value starting
\* from INT_MIN and the scan of min_value from INT_MAX.
C20_AggregateScans ==
    /\ call.op = "max_value" => call.ret = LargestElement
    /\ call.op = "min_value" => call.ret = SmallestElement
    /\ MaxSeed = MinInt
    /\ MinSeed = MaxInt

\* max_value() called on an array that holds negative and positive elements
C20_Witness ==
    /\ call.op = "max_value"
    /\ call.ret > 0
    /\ \E i \in Slots : get(i) < 0

=============================================================================
